---- MODULE Spec2Model ----
(***************************************************************************)
(* StatusPulse monitoring engine: the check pipeline (run_all_checks and   *)
(* trigger_check), the up/down/incident state machine                      *)
(* (update_monitor_status), the alert dispatcher (_send_alerts) and the    *)
(* dashboard's pause/resume toggle, over the tables of the store.          *)
(* Further specifications run the same handlers with several alert        *)
(* channels (SpecDispatch), with failing store calls (SpecFaults), with    *)
(* overlapping processes (SpecOverlap), with any probe outcome (SpecProbe) *)
(* and with SCHP capability checks (SpecSchp).                             *)
(* Every store call and every outbound request is one step of the process  *)
(* that makes it; the wall clock advances between steps.                   *)
(***************************************************************************)
EXTENDS Integers, Sequences, FiniteSets

VARIABLES
    clock,          \* datetime.now(timezone.utc), in whole seconds
    monitors,       \* table "monitors": monitor id -> row
    checks,         \* table "checks": rows in insertion order
    incidents,      \* table "incidents": rows in insertion order
    alert_configs,  \* table "alert_configs": rows (read-only to the engine)
    alert_history,  \* table "alert_history": rows in insertion order
    deliveries,     \* what each call of a channel's send met, in call order
    smtp_configured, \* SMTP_EMAIL and SMTP_PASSWORD are both set
    signup_attempts, \* app.py's _signup_attempts: email -> time of the last allowed signup
    signup_calls,   \* the calls of check_rate_limit so far, each with what it returned
    pc,             \* position of each process in its handler
    loc,            \* local variables of each process
    obs             \* per update_monitor_status call: the tables as it found them

vars == <<clock, monitors, checks, incidents, alert_configs, alert_history, deliveries,
          smtp_configured, signup_attempts, signup_calls, pc, loc, obs>>

(* The sign-up page's rate limiter. *)
signup == <<signup_attempts, signup_calls>>

(* What the engine reads and never writes. *)
config == <<alert_configs, smtp_configured>>

-----------------------------------------------------------------------------
(* Bounds of the model *)

MaxTime == 1
MaxChecks == 3

(* check_interval_seconds of the modelled monitors *)
CheckInterval == 1

(* Program constants *)

DefaultExpectedStatus == 200

-----------------------------------------------------------------------------
(* Values *)

Null == -1
NoMsg == <<>>
MonitorOrder == <<"m1", "m2">>
MonitorIds == {MonitorOrder[i] : i \in 1..Len(MonitorOrder)}
MissingId == "m0"
(* The monitors of the user whose dashboard session is modelled: get_monitors *)
(* lists only the user's own; m2 is another user's, checked by the scheduler.  *)
DashboardMonitors == {"m1"}
Procs == {"cron", "ui"}

(* A row with the keys of update overwritten: table.update(update). *)
UpdateRow(row, update) ==
    [f \in DOMAIN row |-> IF f \in DOMAIN update THEN update[f] ELSE row[f]]

-----------------------------------------------------------------------------
(* The store after the monitors were added *)

NewMonitor(m) ==
    [id |-> m,
     expected_status |-> DefaultExpectedStatus,
     check_interval_seconds |-> CheckInterval,
     is_active |-> TRUE,
     current_status |-> "unknown",
     last_checked_at |-> Null,
     last_status_change_at |-> Null,
     updated_at |-> Null]

StateMachineConfigs ==
    << [id |-> "a1", monitor_id |-> "m1", alert_type |-> "webhook", is_active |-> TRUE],
       [id |-> "a2", monitor_id |-> "m1", alert_type |-> "email", is_active |-> FALSE] >>

IdleLoc ==
    [queue |-> <<>>, results |-> <<>>, skipped |-> <<>>, cycle |-> <<>>,
     monitor_id |-> "none", outcome |-> <<>>, fetched |-> <<>>, result |-> <<>>,
     old_status |-> "none", new_status |-> "none", now |-> Null,
     update_data |-> <<>>, open_incidents |-> <<>>, alerts |-> <<>>, status |-> "none"]

IdleObs ==
    [called |-> FALSE, time |-> Null, incidents |-> <<>>, alert_history |-> <<>>,
     deliveries |-> <<>>, monitor |-> <<>>, dispatched |-> <<>>, status_written |-> FALSE]

(* The deployment with the given monitors and alert configs, before its *)
(* first check.                                                         *)
Deployed(rows, configs) ==
    /\ clock = 0
    /\ monitors = rows
    /\ checks = <<>>
    /\ incidents = <<>>
    /\ alert_configs = configs
    /\ alert_history = <<>>
    /\ deliveries = <<>>
    /\ signup_attempts = <<>>
    /\ signup_calls = <<>>
    /\ pc = [p \in Procs |-> "idle"]
    /\ loc = [p \in Procs |-> IdleLoc]
    /\ obs = [p \in Procs |-> IdleObs]

DefaultMonitors == [m \in MonitorIds |-> NewMonitor(m)]

Init == Deployed(DefaultMonitors, StateMachineConfigs) /\ smtp_configured = TRUE

AllIdle == \A p \in Procs : pc[p] = "idle"

(* The positions whose next step reads the clock. *)
ReadsClock(p) == pc[p] \in {"idle", "rac_loop", "rac_ums", "tc_ums", "ums_resolve"}

(* The wall clock advances, also in the middle of a handler. A second that *)
(* passes before a step that does not read the clock is counted before the *)
(* next step that does.                                                    *)
Tick ==
    /\ clock < MaxTime
    /\ \A p \in Procs : pc[p] # "idle" => ReadsClock(p)
    /\ clock' = clock + 1
    /\ UNCHANGED <<monitors, checks, incidents, config, signup, alert_history, deliveries, pc, loc, obs>>

-----------------------------------------------------------------------------
(* Checker *)

Response(code) == [kind |-> "response", code |-> code, ms |-> 12]
Failure(kind) == [kind |-> kind, code |-> Null, ms |-> Null]

(* What the probes of the state machine's runs meet. *)
StateMachineOutcomes == {Response(200), Response(503)}

(* What the webhooks of the state machine's runs meet. *)
StateMachineWebhooks == {"delivered", "error"}

(* As if any 2xx answer counted as up. *)
IsUpOnAny2xx(status_code, expected_status) == status_code \div 100 = 2

IsUp(status_code, expected_status) == status_code = expected_status

(* As if the last except clause left the message unset. *)
TransportErrorUnlessOther(kind, timeout) ==
    CASE kind = "timeout" -> <<"Timeout after", timeout, "s">>
      [] kind = "connect" -> <<"Connection failed:", "e">>
      [] kind = "redirects" -> <<"Too many redirects">>
      [] OTHER -> NoMsg

TransportError(kind, timeout) ==
    CASE kind = "timeout" -> <<"Timeout after", timeout, "s">>
      [] kind = "connect" -> <<"Connection failed:", "e">>
      [] kind = "redirects" -> <<"Too many redirects">>
      [] OTHER -> <<"Error:", "e">>

check_url(outcome, expected_status, timeout, t) ==
    IF outcome.kind = "response"
    THEN [is_up |-> IsUp(outcome.code, expected_status),
          status_code |-> outcome.code,
          response_time_ms |-> outcome.ms,
          error_message |-> IF IsUp(outcome.code, expected_status) THEN NoMsg
                            ELSE <<"Expected", expected_status, "got", outcome.code>>,
          checked_at |-> t]
    ELSE [is_up |-> FALSE,
          status_code |-> Null,
          response_time_ms |-> Null,
          error_message |-> TransportError(outcome.kind, timeout),
          checked_at |-> t]

CheckRow(monitor_id, result) ==
    [monitor_id |-> monitor_id,
     status_code |-> result.status_code,
     response_time_ms |-> result.response_time_ms,
     is_up |-> result.is_up,
     error_message |-> result.error_message,
     checked_at |-> result.checked_at]

-----------------------------------------------------------------------------
(* Scheduler: run_all_checks *)

(* As if the query did not ask for is_active. *)
AllMonitors ==
    SelectSeq([i \in 1..Len(MonitorOrder) |-> MonitorOrder[i]],
              LAMBDA m : m \in DOMAIN monitors)

ActiveMonitors ==
    SelectSeq([i \in 1..Len(MonitorOrder) |-> MonitorOrder[i]],
              LAMBDA m : m \in DOMAIN monitors /\ monitors[m].is_active)

(* As if a monitor checked exactly one interval ago were not yet due. *)
IsDueAfterInterval(row, t) ==
    \/ row.last_checked_at = Null
    \/ ~(t - row.last_checked_at <= row.check_interval_seconds)

IsDue(row, t) ==
    \/ row.last_checked_at = Null
    \/ ~(t - row.last_checked_at < row.check_interval_seconds)

(* The query for the active monitors; the loop then works on these rows. *)
run_all_checks(p, overlap) ==
    /\ pc[p] = "idle"
    /\ overlap \/ AllIdle
    /\ Len(checks) < MaxChecks
    /\ loc' = [loc EXCEPT ![p] =
                [IdleLoc EXCEPT !.queue = [i \in 1..Len(ActiveMonitors) |->
                                              monitors[ActiveMonitors[i]]],
                                !.cycle = [monitors |-> monitors, checks |-> checks,
                                           incidents |-> incidents,
                                           alert_history |-> alert_history]]]
    /\ pc' = [pc EXCEPT ![p] = "rac_loop"]
    /\ UNCHANGED <<clock, monitors, checks, incidents, config, signup, alert_history, deliveries, obs>>

rac_return(p) ==
    /\ pc[p] = "rac_loop"
    /\ loc[p].queue = <<>>
    /\ pc' = [pc EXCEPT ![p] = "idle"]
    /\ loc' = [loc EXCEPT ![p] = IdleLoc]
    /\ obs' = [obs EXCEPT ![p] = IdleObs]
    /\ UNCHANGED <<clock, monitors, checks, incidents, config, signup, alert_history, deliveries>>

rac_skip(p) ==
    /\ pc[p] = "rac_loop"
    /\ loc[p].queue # <<>>
    /\ ~IsDue(Head(loc[p].queue), clock)
    /\ loc' = [loc EXCEPT ![p].queue = Tail(@),
                          ![p].skipped = Append(@, Head(loc[p].queue).id)]
    /\ UNCHANGED <<clock, monitors, checks, incidents, config, signup, alert_history, deliveries, pc, obs>>

(* run_check: the probe of the next due monitor. *)
rac_check(p, outcomes) ==
    /\ pc[p] = "rac_loop"
    /\ loc[p].queue # <<>>
    /\ IsDue(Head(loc[p].queue), clock)
    /\ Len(checks) < MaxChecks
    /\ \E outcome \in outcomes :
         LET row == Head(loc[p].queue) IN
         loc' = [loc EXCEPT ![p].queue = Tail(@),
                            ![p].monitor_id = row.id,
                            ![p].outcome = outcome,
                            ![p].result = check_url(outcome, row.expected_status, 30, clock)]
    /\ pc' = [pc EXCEPT ![p] = "rac_save"]
    /\ UNCHANGED <<clock, monitors, checks, incidents, config, signup, alert_history, deliveries, obs>>

(* As if the insert into "checks" were built and never executed. *)
save_check_result_not_executed(p, from, to) ==
    /\ pc[p] = from
    /\ pc' = [pc EXCEPT ![p] = to]
    /\ UNCHANGED <<clock, monitors, checks, incidents, config, signup, alert_history, deliveries, loc, obs>>

save_check_result(p, from, to) ==
    /\ pc[p] = from
    /\ checks' = Append(checks, CheckRow(loc[p].monitor_id, loc[p].result))
    /\ pc' = [pc EXCEPT ![p] = to]
    /\ UNCHANGED <<clock, monitors, incidents, config, signup, alert_history, deliveries, loc, obs>>

rac_append(p) ==
    /\ pc[p] = "rac_append"
    /\ loc' = [loc EXCEPT ![p].results = Append(@, loc[p].monitor_id)]
    /\ pc' = [pc EXCEPT ![p] = "rac_loop"]
    /\ obs' = [obs EXCEPT ![p] = IdleObs]
    /\ UNCHANGED <<clock, monitors, checks, incidents, config, signup, alert_history, deliveries>>

-----------------------------------------------------------------------------
(* Manual trigger: trigger_check *)

trigger_check(p, m, outcomes, overlap) ==
    /\ pc[p] = "idle"
    /\ overlap \/ AllIdle
    /\ IF m \in DOMAIN monitors
       THEN /\ Len(checks) < MaxChecks
            /\ \E outcome \in outcomes :
                 loc' = [loc EXCEPT ![p] =
                          [IdleLoc EXCEPT !.monitor_id = m,
                                          !.outcome = outcome,
                                          !.result = check_url(outcome,
                                                 monitors[m].expected_status, 30, clock)]]
            /\ pc' = [pc EXCEPT ![p] = "tc_save"]
       ELSE UNCHANGED <<pc, loc>>
    /\ UNCHANGED <<clock, monitors, checks, incidents, config, signup, alert_history, deliveries, obs>>

tc_return(p) ==
    /\ pc[p] = "tc_return"
    /\ pc' = [pc EXCEPT ![p] = "idle"]
    /\ loc' = [loc EXCEPT ![p] = IdleLoc]
    /\ obs' = [obs EXCEPT ![p] = IdleObs]
    /\ UNCHANGED <<clock, monitors, checks, incidents, config, signup, alert_history, deliveries>>

(* Where update_monitor_status returns to. *)
Caller(p) == IF p = "cron" THEN "rac_append" ELSE "tc_return"

-----------------------------------------------------------------------------
(* Incident and status state machine: update_monitor_status *)

NewStatus(is_up) == IF is_up THEN "up" ELSE "down"

(* As if the first observation counted as a change. *)
StatusChangedAlsoFromUnknown(old_status, new_status) == old_status # new_status

StatusChanged(old_status, new_status) ==
    old_status # new_status /\ old_status # "unknown"

OpensIncident(old_status, new_status) ==
    StatusChanged(old_status, new_status) /\ new_status = "down"

(* As if the recovery branch did not ask for old_status == "down". *)
RecoversFromAny(old_status, new_status) ==
    StatusChanged(old_status, new_status) /\ new_status = "up"

Recovers(old_status, new_status) ==
    StatusChanged(old_status, new_status) /\ new_status = "up" /\ old_status = "down"

(* As if last_status_change_at were part of every update. *)
UpdateDataAlwaysChange(old_status, new_status, now) ==
    [current_status |-> new_status, last_checked_at |-> now, updated_at |-> now,
     last_status_change_at |-> now]

UpdateData(old_status, new_status, now) ==
    IF StatusChanged(old_status, new_status)
    THEN [current_status |-> new_status, last_checked_at |-> now, updated_at |-> now,
          last_status_change_at |-> now]
    ELSE [current_status |-> new_status, last_checked_at |-> now, updated_at |-> now]

(* As if the incident were inserted without its start time. *)
IncidentRowNoStart(id, monitor_id, now) ==
    [id |-> id, monitor_id |-> monitor_id, started_at |-> Null, is_resolved |-> FALSE,
     resolved_at |-> Null, duration_seconds |-> Null]

IncidentRow(id, monitor_id, now) ==
    [id |-> id, monitor_id |-> monitor_id, started_at |-> now, is_resolved |-> FALSE,
     resolved_at |-> Null, duration_seconds |-> Null]

(* int((datetime.now(timezone.utc) - started).total_seconds()), t the clock at that line *)
Duration(started_at, t) == t - started_at

Resolution(now, duration) ==
    [resolved_at |-> now, duration_seconds |-> duration, is_resolved |-> TRUE]

(* As if only the first open incident were fetched. *)
OpenIncidentsFirst(monitor_id) ==
    LET open == SelectSeq(incidents,
                          LAMBDA i : i.monitor_id = monitor_id /\ i.is_resolved = FALSE)
    IN  IF open = <<>> THEN <<>> ELSE <<Head(open)>>

OpenIncidents(monitor_id) ==
    SelectSeq(incidents, LAMBDA i : i.monitor_id = monitor_id /\ i.is_resolved = FALSE)

(* The monitor is read; a missing monitor ends the call. *)
(* The store's id of a new incident: one no row has and no process holds. *)
NewIncidentId ==
    LET used == {incidents[i].id : i \in 1..Len(incidents)}
                \cup UNION {{loc[p].open_incidents[i].id : i \in 1..Len(loc[p].open_incidents)} :
                             p \in Procs}
    IN  1 + (CHOOSE id \in used \cup {0} : \A other \in used : other <= id)

ums_read(p, from) ==
    /\ pc[p] = from
    /\ IF loc[p].monitor_id \in DOMAIN monitors
       THEN LET row == monitors[loc[p].monitor_id]
                old_status == row.current_status
                new_status == NewStatus(loc[p].result.is_up)
            IN  /\ loc' = [loc EXCEPT ![p].old_status = old_status,
                                       ![p].new_status = new_status,
                                       ![p].now = clock,
                                       ![p].update_data =
                                            UpdateData(old_status, new_status, clock)]
                /\ obs' = [obs EXCEPT ![p] =
                            [IdleObs EXCEPT !.called = TRUE,
                                            !.time = clock,
                                            !.incidents = incidents,
                                            !.alert_history = alert_history,
                                            !.deliveries = deliveries,
                                            !.monitor = row]]
                /\ pc' = [pc EXCEPT ![p] =
                            IF OpensIncident(old_status, new_status) THEN "ums_insert"
                            ELSE IF Recovers(old_status, new_status) THEN "ums_open"
                            ELSE "ums_write"]
       ELSE /\ pc' = [pc EXCEPT ![p] = Caller(p)]
            /\ UNCHANGED <<loc, obs>>
    /\ UNCHANGED <<clock, monitors, checks, incidents, config, signup, alert_history, deliveries>>

(* Transition to down: the new incident, then the alerts. *)
ums_insert(p) ==
    /\ pc[p] = "ums_insert"
    /\ incidents' = Append(incidents,
                           IncidentRow(NewIncidentId, loc[p].monitor_id, loc[p].now))
    /\ loc' = [loc EXCEPT ![p].status = "down"]
    /\ pc' = [pc EXCEPT ![p] = "sa_query"]
    /\ UNCHANGED <<clock, monitors, checks, config, signup, alert_history, deliveries, obs>>

(* Transition down to up: the open incidents are read... *)
ums_open(p) ==
    /\ pc[p] = "ums_open"
    /\ loc' = [loc EXCEPT ![p].open_incidents = OpenIncidents(loc[p].monitor_id),
                          ![p].status = "up"]
    /\ pc' = [pc EXCEPT ![p] = "ums_resolve"]
    /\ UNCHANGED <<clock, monitors, checks, incidents, config, signup, alert_history, deliveries, obs>>

(* ... and resolved one by one, each with the clock of its own iteration. *)
ums_resolve(p) ==
    /\ pc[p] = "ums_resolve"
    /\ loc[p].open_incidents # <<>>
    /\ LET incident == Head(loc[p].open_incidents)
           update == Resolution(loc[p].now, Duration(incident.started_at, clock))
       IN  incidents' = [i \in 1..Len(incidents) |->
                           IF incidents[i].id = incident.id
                           THEN UpdateRow(incidents[i], update) ELSE incidents[i]]
    /\ loc' = [loc EXCEPT ![p].open_incidents = Tail(@)]
    /\ UNCHANGED <<clock, monitors, checks, config, signup, alert_history, deliveries, pc, obs>>

ums_resolved(p) ==
    /\ pc[p] = "ums_resolve"
    /\ loc[p].open_incidents = <<>>
    /\ pc' = [pc EXCEPT ![p] = "sa_query"]
    /\ UNCHANGED <<clock, monitors, checks, incidents, config, signup, alert_history, deliveries, loc, obs>>

(* The monitor's row is written last. *)
ums_write(p) ==
    /\ pc[p] = "ums_write"
    /\ monitors' = [m \in DOMAIN monitors |->
                      IF m = loc[p].monitor_id
                      THEN UpdateRow(monitors[m], loc[p].update_data) ELSE monitors[m]]
    /\ obs' = [obs EXCEPT ![p].status_written = TRUE]
    /\ pc' = [pc EXCEPT ![p] = Caller(p)]
    /\ UNCHANGED <<clock, checks, incidents, config, signup, alert_history, deliveries, loc>>

-----------------------------------------------------------------------------
(* Alert dispatcher: _send_alerts *)

ActiveAlertConfigs(monitor_id) ==
    SelectSeq(alert_configs, LAMBDA a : a.monitor_id = monitor_id /\ a.is_active = TRUE)

(* status.upper() *)
Upper(status) == IF status = "down" THEN "DOWN" ELSE IF status = "up" THEN "UP" ELSE status

HistoryRow(alert, monitor_id, status, delivered) ==
    [alert_config_id |-> alert.id, monitor_id |-> monitor_id, alert_type |-> alert.alert_type,
     message |-> IF delivered THEN <<monitor_id, "is", Upper(status)>> ELSE <<"Failed:", "e">>,
     was_successful |-> delivered]

sa_query(p) ==
    /\ pc[p] = "sa_query"
    /\ loc' = [loc EXCEPT ![p].alerts = ActiveAlertConfigs(loc[p].monitor_id)]
    /\ obs' = [obs EXCEPT ![p].dispatched = Append(@, loc[p].status)]
    /\ pc' = [pc EXCEPT ![p] = "sa_loop"]
    /\ UNCHANGED <<clock, monitors, checks, incidents, config, signup, alert_history, deliveries>>

(* What a call of a channel's send can meet. _send_email_alert returns at   *)
(* once without credentials ("skipped": nothing is sent), else the SMTP     *)
(* session delivers or raises. httpx.post returns the response, whatever    *)
(* its status ("delivered": 2xx, "rejected": any other), or raises.         *)
WebhookOutcomes == {"delivered", "rejected", "error"}

SendOutcomes(alert, webhook_outcomes) ==
    IF alert.alert_type = "email"
    THEN IF smtp_configured THEN {"delivered", "error"} ELSE {"skipped"}
    ELSE webhook_outcomes

(* The outcomes on which the send raises into the except clause. *)
Raises(outcome) == outcome = "error"

Delivery(alert, monitor_id, status, outcome) ==
    [alert_config_id |-> alert.id, monitor_id |-> monitor_id, status |-> status,
     outcome |-> outcome]

(* One channel: the send raises or returns, and its record is written. *)
sa_send(p, webhook_outcomes) ==
    /\ pc[p] = "sa_loop"
    /\ loc[p].alerts # <<>>
    /\ \E outcome \in SendOutcomes(Head(loc[p].alerts), webhook_outcomes) :
         /\ deliveries' = Append(deliveries,
                Delivery(Head(loc[p].alerts), loc[p].monitor_id, loc[p].status, outcome))
         /\ alert_history' = Append(alert_history,
                HistoryRow(Head(loc[p].alerts), loc[p].monitor_id, loc[p].status,
                           ~Raises(outcome)))
    /\ loc' = [loc EXCEPT ![p].alerts = Tail(@)]
    /\ UNCHANGED <<clock, monitors, checks, incidents, config, signup, pc, obs>>

sa_return(p) ==
    /\ pc[p] = "sa_loop"
    /\ loc[p].alerts = <<>>
    /\ pc' = [pc EXCEPT ![p] = "ums_write"]
    /\ UNCHANGED <<clock, monitors, checks, incidents, config, signup, alert_history, deliveries, loc, obs>>

-----------------------------------------------------------------------------
(* Dashboard: the pause/resume toggle of a monitor *)

ToggledStatus(is_active) == IF is_active THEN "paused" ELSE "unknown"

toggle_active(m, overlap) ==
    /\ overlap \/ AllIdle
    /\ m \in DOMAIN monitors
    /\ monitors' = [monitors EXCEPT ![m] =
                      UpdateRow(@, [is_active |-> ~monitors[m].is_active,
                                    current_status |-> ToggledStatus(monitors[m].is_active)])]
    /\ UNCHANGED <<clock, checks, incidents, config, signup, alert_history, deliveries, pc, loc, obs>>

-----------------------------------------------------------------------------
(* Operations one after another: a handler starts when no other is running. *)

Next ==
    \/ Tick
    \/ run_all_checks("cron", FALSE)
    \/ rac_return("cron")
    \/ rac_skip("cron")
    \/ rac_check("cron", StateMachineOutcomes)
    \/ save_check_result("cron", "rac_save", "rac_ums")
    \/ ums_read("cron", "rac_ums")
    \/ rac_append("cron")
    \/ \E m \in DashboardMonitors \cup {MissingId} :
          trigger_check("ui", m, StateMachineOutcomes, FALSE)
    \/ save_check_result("ui", "tc_save", "tc_ums")
    \/ ums_read("ui", "tc_ums")
    \/ tc_return("ui")
    \/ \E p \in Procs :
          \/ ums_insert(p)
          \/ ums_open(p)
          \/ ums_resolve(p)
          \/ ums_resolved(p)
          \/ ums_write(p)
          \/ sa_query(p)
          \/ sa_send(p, StateMachineWebhooks)
          \/ sa_return(p)
    \/ \E m \in DashboardMonitors : toggle_active(m, FALSE)

Spec == Init /\ [][Next]_vars

-----------------------------------------------------------------------------
(* What a call of update_monitor_status that has returned did, against the *)
(* tables as it found them.                                                *)

Returned(p) == pc[p] = Caller(p) /\ obs[p].called

Unresolved(rows, m) ==
    {i \in 1..Len(rows) : rows[i].monitor_id = m /\ rows[i].is_resolved = FALSE}

(* The fields of a monitor's row that a check leaves alone when nothing changed. *)
SameBut(row, before, fields) ==
    \A f \in DOMAIN before : f \notin fields => row[f] = before[f]

(* C1: every monitor has at most one incident with is_resolved = false, after *)
(* any sequence of scheduled checks, manual checks, pauses and resumes that   *)
(* do not overlap.                                                            *)
C1_AtMostOneOpenIncident ==
    \A m \in MonitorIds : Cardinality(Unresolved(incidents, m)) <= 1

(* C2: update_monitor_status with is_up = false on a monitor that is up       *)
(* inserts exactly one incident, unresolved and started at the time of the    *)
(* call, and leaves every incident that existed as it was.                    *)
C2_UpToDownOpensOneIncident ==
    \A p \in Procs :
        (Returned(p) /\ obs[p].monitor.current_status = "up" /\ ~loc[p].result.is_up)
        => /\ Len(incidents) = Len(obs[p].incidents) + 1
           /\ SubSeq(incidents, 1, Len(obs[p].incidents)) = obs[p].incidents
           /\ LET new == incidents[Len(incidents)] IN
                /\ new.monitor_id = loc[p].monitor_id
                /\ new.is_resolved = FALSE
                /\ new.started_at = obs[p].time
                /\ new.resolved_at = Null

C2_Witness ==
    \E p \in Procs :
        /\ Returned(p) /\ obs[p].monitor.current_status = "up" /\ ~loc[p].result.is_up
        /\ obs[p].incidents # <<>>
        /\ Len(incidents) = Len(obs[p].incidents) + 1

(* C3: update_monitor_status on a monitor whose status is unknown sets the    *)
(* status to up or down after the result, and inserts no incident, resolves   *)
(* none, dispatches no alert and leaves last_status_change_at as it was.      *)
C3_FirstObservationIsNoIncident ==
    \A p \in Procs :
        (Returned(p) /\ obs[p].monitor.current_status = "unknown")
        => /\ monitors[loc[p].monitor_id].current_status =
                  (IF loc[p].result.is_up THEN "up" ELSE "down")
           /\ incidents = obs[p].incidents
           /\ alert_history = obs[p].alert_history
           /\ obs[p].dispatched = <<>>
           /\ monitors[loc[p].monitor_id].last_status_change_at =
                  obs[p].monitor.last_status_change_at

C3_Witness ==
    \E p \in Procs :
        /\ Returned(p) /\ obs[p].monitor.current_status = "unknown"
        /\ ~loc[p].result.is_up
        /\ monitors[loc[p].monitor_id].current_status = "down"
        /\ obs[p].incidents # <<>>

(* C4: update_monitor_status with the result the monitor already has (up on   *)
(* up, down on down) leaves the incidents, the alert history and              *)
(* last_status_change_at as they were; of the monitor's row only              *)
(* last_checked_at and updated_at change, to the time of the call.            *)
C4_RepeatChangesOnlyCheckedAt ==
    \A p \in Procs :
        (Returned(p) /\ obs[p].monitor.current_status =
                            (IF loc[p].result.is_up THEN "up" ELSE "down"))
        => /\ incidents = obs[p].incidents
           /\ alert_history = obs[p].alert_history
           /\ obs[p].dispatched = <<>>
           /\ SameBut(monitors[loc[p].monitor_id], obs[p].monitor,
                      {"last_checked_at", "updated_at"})
           /\ monitors[loc[p].monitor_id].last_checked_at = obs[p].time
           /\ monitors[loc[p].monitor_id].updated_at = obs[p].time
           /\ monitors[loc[p].monitor_id].last_checked_at >= obs[p].monitor.last_checked_at

C4_Witness ==
    \E p \in Procs :
        /\ Returned(p) /\ obs[p].monitor.current_status = "down" /\ ~loc[p].result.is_up
        /\ Unresolved(incidents, loc[p].monitor_id) # {}
        /\ monitors[loc[p].monitor_id].last_checked_at > obs[p].monitor.last_checked_at
        /\ obs[p].monitor.last_checked_at # Null

(* C5: update_monitor_status with is_up = true on a monitor that is down      *)
(* resolves every incident of the monitor that was unresolved, with           *)
(* resolved_at the time of the call, so the monitor is left with none         *)
(* unresolved; the incidents of other monitors stay as they were.             *)
C5_RecoveryResolvesAllOpen ==
    \A p \in Procs :
        (Returned(p) /\ obs[p].monitor.current_status = "down" /\ loc[p].result.is_up)
        => /\ Len(incidents) = Len(obs[p].incidents)
           /\ Unresolved(incidents, loc[p].monitor_id) = {}
           /\ \A i \in 1..Len(obs[p].incidents) :
                IF i \in Unresolved(obs[p].incidents, loc[p].monitor_id)
                THEN /\ incidents[i].is_resolved = TRUE
                     /\ incidents[i].resolved_at = obs[p].time
                     /\ incidents[i].resolved_at # Null
                     /\ incidents[i].started_at = obs[p].incidents[i].started_at
                ELSE incidents[i] = obs[p].incidents[i]

C5_Witness ==
    \E p \in Procs :
        /\ Returned(p) /\ obs[p].monitor.current_status = "down" /\ loc[p].result.is_up
        /\ Cardinality(Unresolved(obs[p].incidents, loc[p].monitor_id)) >= 2

(* C6: every resolved incident has duration_seconds = resolved_at -           *)
(* started_at, also when several are resolved in one call and when the clock  *)
(* advances during the call.                                                  *)
C6_DurationIsResolvedMinusStarted ==
    \A i \in 1..Len(incidents) :
        incidents[i].is_resolved
        => incidents[i].duration_seconds = incidents[i].resolved_at - incidents[i].started_at

(* C7: a monitor's current_status is paused exactly when its is_active is     *)
(* false.                                                                     *)
C7_PausedIffInactive ==
    \A m \in DOMAIN monitors :
        (monitors[m].current_status = "paused") <=> (monitors[m].is_active = FALSE)

(* C8: the check pipeline never moves a monitor out of paused or into paused, *)
(* and a check applied to a paused monitor opens no incident and dispatches   *)
(* no alert.                                                                  *)
C8_PipelineKeepsPaused ==
    \A p \in Procs :
        Returned(p)
        => /\ (obs[p].monitor.current_status = "paused")
                  <=> (monitors[loc[p].monitor_id].current_status = "paused")
           /\ obs[p].monitor.current_status = "paused"
                  => /\ incidents = obs[p].incidents
                     /\ obs[p].dispatched = <<>>
                     /\ alert_history = obs[p].alert_history

(* C9: within one call of update_monitor_status the dispatcher is invoked,    *)
(* and the first alert is sent, only after the monitor's status update has    *)
(* been written.                                                              *)
C9_StatusWrittenBeforeDispatch ==
    \A p \in Procs :
        (obs[p].called /\ (obs[p].dispatched # <<>>
                            \/ Len(alert_history) > Len(obs[p].alert_history)))
        => obs[p].status_written

(* C10: update_monitor_status invokes the dispatcher once with "down" exactly *)
(* when it inserts an incident, once with "up" exactly when it takes a down   *)
(* monitor to up, and not at all otherwise: not on a repeat of the status,    *)
(* not on the first observation from unknown. A down result leaves the        *)
(* monitor down, so of N consecutive down results after an up only the first  *)
(* dispatches.                                                                *)
C10_DispatchExactlyOnTransitions ==
    \A p \in Procs :
        Returned(p)
        => LET old == obs[p].monitor.current_status
               is_up == loc[p].result.is_up
               opened == Len(incidents) > Len(obs[p].incidents)
           IN  /\ obs[p].dispatched \in {<<>>, <<"down">>, <<"up">>}
               /\ (obs[p].dispatched = <<"down">>) <=> opened
               /\ (obs[p].dispatched = <<"up">>) <=> (old = "down" /\ is_up)
               /\ old = (IF is_up THEN "up" ELSE "down") => obs[p].dispatched = <<>>
               /\ old = "unknown" => obs[p].dispatched = <<>>
               /\ (old = "up" /\ ~is_up) => obs[p].dispatched = <<"down">>
               /\ ~is_up => monitors[loc[p].monitor_id].current_status = "down"
               /\ Len(alert_history) - Len(obs[p].alert_history) =
                    (IF obs[p].dispatched = <<>> THEN 0
                     ELSE Len(ActiveAlertConfigs(loc[p].monitor_id)))

C10_Witness ==
    \E p \in Procs :
        /\ Returned(p) /\ obs[p].monitor.current_status = "down" /\ ~loc[p].result.is_up
        /\ obs[p].dispatched = <<>>
        /\ \E i \in 1..Len(obs[p].alert_history) :
             /\ obs[p].alert_history[i].monitor_id = loc[p].monitor_id
             /\ obs[p].alert_history[i].message = <<loc[p].monitor_id, "is", "DOWN">>
        /\ Cardinality(Unresolved(incidents, loc[p].monitor_id)) = 1
        /\ \E i \in 1..Len(checks) : checks[i].monitor_id = loc[p].monitor_id /\ checks[i].is_up

-----------------------------------------------------------------------------
(* Positions of a check pipeline: the probe is made and its result is not  *)
(* yet saved; the result is saved and the handler has not yet returned.    *)

BeforeSave(p) == pc[p] \in {"rac_save", "tc_save"}

PastSave(p) ==
    pc[p] \in {"rac_ums", "tc_ums", "ums_insert", "ums_open", "ums_resolve", "ums_write",
               "sa_query", "sa_loop", "rac_append", "tc_return"}

(* C11: in the scheduled and in the manual path, once a probe's pipeline is  *)
(* past the save its check row is the last row of "checks"; a monitor whose  *)
(* last_checked_at is set has a check row no later than it, agreeing with an  *)
(* up or down status; "checks" changes only by the save step appending the   *)
(* row of that process's probe, once per probe, and no row is ever modified. *)
C11_CheckRowBacksStatus ==
    /\ [](/\ \A p \in Procs :
               PastSave(p) =>
                   /\ checks # <<>>
                   /\ checks[Len(checks)] = CheckRow(loc[p].monitor_id, loc[p].result)
           /\ \A m \in DOMAIN monitors :
               monitors[m].last_checked_at # Null =>
                   \E i \in 1..Len(checks) :
                       /\ checks[i].monitor_id = m
                       /\ checks[i].checked_at <= monitors[m].last_checked_at
                       /\ monitors[m].current_status \in {"up", "down"} =>
                              checks[i].is_up = (monitors[m].current_status = "up"))
    /\ [][/\ \/ checks' = checks
             \/ \E p \in Procs :
                   /\ BeforeSave(p)
                   /\ checks' = Append(checks, CheckRow(loc[p].monitor_id, loc[p].result))
          /\ \A p \in Procs :
                (BeforeSave(p) /\ pc'[p] # pc[p]) =>
                    /\ PastSave(p)'
                    /\ Len(checks') = Len(checks) + 1]_vars

C11_Witness ==
    /\ pc["ui"] = "tc_return" /\ obs["ui"].status_written
    /\ Len(checks) >= 2
    /\ monitors["m1"].current_status = "down"
    /\ \E i \in 1..Len(checks) : checks[i].monitor_id = "m2"

-----------------------------------------------------------------------------
(* Dispatch over several channels: a monitor with an active webhook, an    *)
(* active email and an inactive webhook config, in a deployment with or    *)
(* without SMTP credentials; a webhook can answer with any status.         *)

DispatchConfigs ==
    << [id |-> "a1", monitor_id |-> "m1", alert_type |-> "webhook", is_active |-> TRUE],
       [id |-> "a2", monitor_id |-> "m1", alert_type |-> "email", is_active |-> TRUE],
       [id |-> "a3", monitor_id |-> "m1", alert_type |-> "webhook", is_active |-> FALSE] >>

InitDispatch == Deployed(DefaultMonitors, DispatchConfigs) /\ smtp_configured \in BOOLEAN

NextDispatch ==
    \/ Tick
    \/ run_all_checks("cron", FALSE)
    \/ rac_return("cron")
    \/ rac_skip("cron")
    \/ rac_check("cron", StateMachineOutcomes)
    \/ save_check_result("cron", "rac_save", "rac_ums")
    \/ ums_read("cron", "rac_ums")
    \/ rac_append("cron")
    \/ \E m \in DashboardMonitors : trigger_check("ui", m, StateMachineOutcomes, FALSE)
    \/ save_check_result("ui", "tc_save", "tc_ums")
    \/ ums_read("ui", "tc_ums")
    \/ tc_return("ui")
    \/ \E p \in Procs :
          \/ ums_insert(p)
          \/ ums_open(p)
          \/ ums_resolve(p)
          \/ ums_resolved(p)
          \/ ums_write(p)
          \/ sa_query(p)
          \/ sa_send(p, WebhookOutcomes)
          \/ sa_return(p)

SpecDispatch == InitDispatch /\ [][NextDispatch]_vars

(* The records and the sends of the dispatch a call of update_monitor_status made. *)
Recorded(p) == SubSeq(alert_history, Len(obs[p].alert_history) + 1, Len(alert_history))
Sent(p) == SubSeq(deliveries, Len(obs[p].deliveries) + 1, Len(deliveries))
Dispatched(p) == Returned(p) /\ obs[p].dispatched # <<>>

InactiveConfigIds ==
    {alert_configs[i].id : i \in {j \in 1..Len(alert_configs) : ~alert_configs[j].is_active}}

(* C12: a dispatch attempts every active config of the monitor and writes    *)
(* exactly one alert_history row per config, in order, with was_successful   *)
(* true exactly for the channels whose send was delivered, whatever the      *)
(* other channels met; inactive configs are neither attempted nor recorded.  *)
C12_DispatchIsolation ==
    \A p \in Procs :
        Dispatched(p) =>
            LET active == ActiveAlertConfigs(loc[p].monitor_id) IN
            /\ Len(Recorded(p)) = Len(active)
            /\ Len(Sent(p)) = Len(active)
            /\ \A i \in 1..Len(active) :
                  /\ Recorded(p)[i].alert_config_id = active[i].id
                  /\ Sent(p)[i].alert_config_id = active[i].id
                  /\ Sent(p)[i].outcome # "skipped"
                  /\ Recorded(p)[i].was_successful = (Sent(p)[i].outcome = "delivered")
            /\ \A i \in 1..Len(alert_history) :
                  alert_history[i].alert_config_id \notin InactiveConfigIds
            /\ \A i \in 1..Len(deliveries) :
                  deliveries[i].alert_config_id \notin InactiveConfigIds

(* C13: without SMTP credentials, a dispatch to an email config sends        *)
(* nothing and its alert_history row, if any, does not say was_successful.   *)
C13_NoFalseSuccessWithoutSmtp ==
    ~smtp_configured =>
        \A i \in 1..Len(deliveries) :
            (\E j \in 1..Len(alert_configs) :
                 /\ alert_configs[j].id = deliveries[i].alert_config_id
                 /\ alert_configs[j].alert_type = "email")
            => /\ deliveries[i].outcome = "skipped"
               /\ i <= Len(alert_history) =>
                      ~(/\ alert_history[i].alert_config_id = deliveries[i].alert_config_id
                        /\ alert_history[i].was_successful)

(* C14: the alert_history row of a webhook POST that was answered with a     *)
(* non-2xx status, or that failed in transport, has was_successful = false.  *)
C14_WebhookNon2xxIsFailure ==
    \A i \in 1..Len(deliveries) :
        (/\ i <= Len(alert_history)
         /\ alert_history[i].alert_type = "webhook"
         /\ alert_history[i].alert_config_id = deliveries[i].alert_config_id
         /\ deliveries[i].outcome \in {"rejected", "error"})
        => ~alert_history[i].was_successful

-----------------------------------------------------------------------------
(* The rows of a table that belong to a monitor. *)
RowsOf(rows, m) == SelectSeq(rows, LAMBDA r : r.monitor_id = m)

(* C15: the scheduler's loop checks the next active monitor of its cycle if  *)
(* and only if last_checked_at is null or now - last_checked_at is at least  *)
(* check_interval_seconds, and otherwise skips it without touching any       *)
(* table; while the cycle runs, a skipped monitor is not in the list to be   *)
(* returned and its row, checks, incidents and alert history are as they     *)
(* were when the cycle started.                                              *)
C15_DueCheckLaw ==
    /\ [][(pc["cron"] = "rac_loop" /\ loc["cron"].queue # <<>> /\ loc'["cron"] # loc["cron"])
          => LET row == Head(loc["cron"].queue)
                 due == \/ row.last_checked_at = Null
                        \/ clock - row.last_checked_at >= row.check_interval_seconds
             IN  IF due
                 THEN /\ pc'["cron"] = "rac_save"
                      /\ loc'["cron"].monitor_id = row.id
                      /\ loc'["cron"].skipped = loc["cron"].skipped
                 ELSE /\ pc'["cron"] = "rac_loop"
                      /\ loc'["cron"].skipped = Append(loc["cron"].skipped, row.id)
                      /\ loc'["cron"].results = loc["cron"].results
                      /\ UNCHANGED <<monitors, checks, incidents, alert_history, deliveries>>]_vars
    /\ [](\A i \in 1..Len(loc["cron"].skipped) :
             LET m == loc["cron"].skipped[i]
                 cycle == loc["cron"].cycle
             IN  /\ \A j \in 1..Len(loc["cron"].results) : loc["cron"].results[j] # m
                 /\ monitors[m] = cycle.monitors[m]
                 /\ RowsOf(checks, m) = RowsOf(cycle.checks, m)
                 /\ RowsOf(incidents, m) = RowsOf(cycle.incidents, m)
                 /\ RowsOf(alert_history, m) = RowsOf(cycle.alert_history, m))

C15_Witness ==
    /\ pc["cron"] = "rac_append"
    /\ loc["cron"].skipped = <<"m1">>
    /\ loc["cron"].monitor_id = "m2"
    /\ loc["cron"].cycle.monitors["m2"].last_checked_at # Null
    /\ loc["cron"].result.checked_at = clock
    /\ loc["cron"].cycle.monitors["m2"].last_checked_at = clock - CheckInterval
    /\ loc["cron"].cycle.monitors["m1"].last_checked_at = clock - CheckInterval + 1

-----------------------------------------------------------------------------
(* Store calls that fail. Every .execute() can raise; update_monitor_status, *)
(* save_check_result, run_all_checks and trigger_check catch nothing, so the *)
(* exception leaves the handler from wherever the call was made.             *)

FaultOutcomes == {Response(200), Failure("timeout")}

(* The positions whose next step is a store call. *)
AtStoreCall(p) ==
    \/ pc[p] \in {"rac_save", "tc_save", "rac_ums", "tc_ums", "ums_insert", "ums_open",
                   "ums_write", "sa_query"}
    \/ pc[p] = "ums_resolve" /\ loc[p].open_incidents # <<>>

store_raises(p) ==
    /\ AtStoreCall(p)
    /\ pc' = [pc EXCEPT ![p] = "raised"]
    /\ UNCHANGED <<clock, monitors, checks, incidents, config, signup, alert_history, deliveries, loc, obs>>

(* The channel's send is made, the insert of its record raises, and so does *)
(* the insert in the except clause.                                         *)
history_raises(p) ==
    /\ pc[p] = "sa_loop"
    /\ loc[p].alerts # <<>>
    /\ \E outcome \in SendOutcomes(Head(loc[p].alerts), WebhookOutcomes) :
         deliveries' = Append(deliveries,
                Delivery(Head(loc[p].alerts), loc[p].monitor_id, loc[p].status, outcome))
    /\ pc' = [pc EXCEPT ![p] = "raised"]
    /\ UNCHANGED <<clock, monitors, checks, incidents, config, signup, alert_history, loc, obs>>

(* The exception reaches the caller of the handler: run_daemon prints it and *)
(* sleeps, run_once and the dashboard's rerun end with it.                   *)
unwind(p) ==
    /\ pc[p] = "raised"
    /\ pc' = [pc EXCEPT ![p] = "idle"]
    /\ loc' = [loc EXCEPT ![p] = IdleLoc]
    /\ obs' = [obs EXCEPT ![p] = IdleObs]
    /\ UNCHANGED <<clock, monitors, checks, incidents, config, signup, alert_history, deliveries>>

NextFaults ==
    \/ Tick
    \/ run_all_checks("cron", FALSE)
    \/ rac_return("cron")
    \/ rac_skip("cron")
    \/ rac_check("cron", FaultOutcomes)
    \/ save_check_result("cron", "rac_save", "rac_ums")
    \/ ums_read("cron", "rac_ums")
    \/ rac_append("cron")
    \/ \E m \in DashboardMonitors : trigger_check("ui", m, FaultOutcomes, FALSE)
    \/ save_check_result("ui", "tc_save", "tc_ums")
    \/ ums_read("ui", "tc_ums")
    \/ tc_return("ui")
    \/ \E p \in Procs :
          \/ ums_insert(p)
          \/ ums_open(p)
          \/ ums_resolve(p)
          \/ ums_resolved(p)
          \/ ums_write(p)
          \/ sa_query(p)
          \/ sa_send(p, WebhookOutcomes)
          \/ sa_return(p)
          \/ store_raises(p)
          \/ history_raises(p)
          \/ unwind(p)

SpecFaults == Init /\ [][NextFaults]_vars

(* C16: a scheduler cycle is not ended by a failure on one of its monitors:  *)
(* no exception leaves run_all_checks while a monitor that is due is still   *)
(* waiting in the cycle.                                                     *)
C16_FailureDoesNotEndCycle ==
    pc["cron"] = "raised" =>
        \A i \in 1..Len(loc["cron"].queue) :
            LET row == loc["cron"].queue[i] IN
            ~(\/ row.last_checked_at = Null
              \/ clock - row.last_checked_at >= row.check_interval_seconds)

-----------------------------------------------------------------------------
(* Operations that overlap: the scheduler's cycle and a manual check from   *)
(* the dashboard run in different processes against the same store, and a   *)
(* handler starts whatever the other process is doing.                      *)

NextOverlap ==
    \/ Tick
    \/ run_all_checks("cron", TRUE)
    \/ rac_return("cron")
    \/ rac_skip("cron")
    \/ rac_check("cron", StateMachineOutcomes)
    \/ save_check_result("cron", "rac_save", "rac_ums")
    \/ ums_read("cron", "rac_ums")
    \/ rac_append("cron")
    \/ \E m \in DashboardMonitors : trigger_check("ui", m, StateMachineOutcomes, TRUE)
    \/ save_check_result("ui", "tc_save", "tc_ums")
    \/ ums_read("ui", "tc_ums")
    \/ tc_return("ui")
    \/ \E p \in Procs :
          \/ ums_insert(p)
          \/ ums_open(p)
          \/ ums_resolve(p)
          \/ ums_resolved(p)
          \/ ums_write(p)
          \/ sa_query(p)
          \/ sa_send(p, StateMachineWebhooks)
          \/ sa_return(p)

SpecOverlap == Init /\ [][NextOverlap]_vars

(* Between the read of the monitor's status and the write of the new one. *)
InStateMachine(p) ==
    pc[p] \in {"ums_insert", "ums_open", "ums_resolve", "sa_query", "sa_loop", "ums_write"}

(* C17: two check pipelines for the same monitor are never both between the  *)
(* read of its status and the write of its new status.                       *)
C17_OneCheckInFlight ==
    \A p, q \in Procs :
        (p # q /\ InStateMachine(p) /\ InStateMachine(q))
        => loc[p].monitor_id # loc[q].monitor_id

-----------------------------------------------------------------------------
(* The probe: manual checks of a monitor with any expected status, against *)
(* an endpoint that answers with any code or fails in transport.           *)

ExpectedStatuses == {200, 201}
ProbeCodes == {200, 201, 503}
TransportFailures == {"timeout", "connect", "redirects", "other"}

ProbeOutcomes ==
    {Response(code) : code \in ProbeCodes} \cup {Failure(kind) : kind \in TransportFailures}

InitProbe ==
    /\ \E expected \in ExpectedStatuses :
          Deployed([m \in MonitorIds |-> [NewMonitor(m) EXCEPT !.expected_status = expected]],
                   StateMachineConfigs)
    /\ smtp_configured = TRUE

NextProbe ==
    \/ Tick
    \/ \E m \in DashboardMonitors : trigger_check("ui", m, ProbeOutcomes, FALSE)
    \/ save_check_result("ui", "tc_save", "tc_ums")
    \/ ums_read("ui", "tc_ums")
    \/ ums_insert("ui")
    \/ ums_open("ui")
    \/ ums_resolve("ui")
    \/ ums_resolved("ui")
    \/ ums_write("ui")
    \/ sa_query("ui")
    \/ sa_send("ui", StateMachineWebhooks)
    \/ sa_return("ui")
    \/ tc_return("ui")

SpecProbe == InitProbe /\ [][NextProbe]_vars

(* A process that holds the result of a probe. *)
Probed(p) == loc[p].outcome # <<>>

(* C18: for every answered probe, is_up is true exactly when the answer's    *)
(* code equals the monitor's expected_status; otherwise the error message is *)
(* "Expected <expected>, got <code>", and when is_up is true there is none.  *)
C18_UpIffExpectedStatus ==
    \A p \in Procs :
        (Probed(p) /\ loc[p].outcome.kind = "response") =>
            LET expected == monitors[loc[p].monitor_id].expected_status
                code == loc[p].outcome.code
                result == loc[p].result
            IN  /\ result.is_up = (code = expected)
                /\ result.status_code = code
                /\ code # expected =>
                       result.error_message = <<"Expected", expected, "got", code>>
                /\ result.is_up => result.error_message = NoMsg

C18_Witness ==
    /\ Probed("ui")
    /\ loc["ui"].outcome = Response(201)
    /\ monitors[loc["ui"].monitor_id].expected_status = 200
    /\ ~loc["ui"].result.is_up

(* C19: a probe that fails in transport yields a result with is_up false, no *)
(* status code, no response time and an error message; its check row is      *)
(* saved as such, the state machine takes it as down, and a monitor that was *)
(* up gets its incident.                                                     *)
C19_TransportFailureIsDown ==
    \A p \in Procs :
        (Probed(p) /\ loc[p].outcome.kind \in TransportFailures) =>
            /\ pc[p] \in {"tc_save", "rac_save"} \/ PastSave(p)
            /\ loc[p].result.is_up = FALSE
            /\ loc[p].result.status_code = Null
            /\ loc[p].result.response_time_ms = Null
            /\ loc[p].result.error_message # NoMsg
            /\ PastSave(p) =>
                  /\ checks # <<>>
                  /\ checks[Len(checks)].monitor_id = loc[p].monitor_id
                  /\ checks[Len(checks)].is_up = FALSE
                  /\ checks[Len(checks)].status_code = Null
                  /\ checks[Len(checks)].error_message # NoMsg
            /\ obs[p].called => loc[p].new_status = "down"
            /\ Returned(p) =>
                  /\ monitors[loc[p].monitor_id].current_status = "down"
                  /\ obs[p].monitor.current_status = "up" =>
                         /\ Len(incidents) = Len(obs[p].incidents) + 1
                         /\ obs[p].dispatched = <<"down">>

C19_Witness ==
    /\ Returned("ui")
    /\ loc["ui"].outcome = Failure("other")
    /\ obs["ui"].monitor.current_status = "up"
    /\ Len(incidents) = 1

-----------------------------------------------------------------------------
(* SCHP capability checks: SCHPClient and check_capabilities *)

MaxCapabilityChecks == 1

CapabilityOrder == <<"auth", "database">>
CapabilityNames == {CapabilityOrder[i] : i \in 1..Len(CapabilityOrder)}

(* A capability's entry as parsed from JSON: an object with or without an   *)
(* "ok" member, whose value is true, false or something else, or a value    *)
(* that is no object.                                                       *)
CapabilityEntries ==
    [kind : {"object"}, has_ok : {TRUE}, ok : {"true", "false", "yes"}]
    \cup {[kind |-> "object", has_ok |-> FALSE, ok |-> "none"],
          [kind |-> "string", has_ok |-> FALSE, ok |-> "none"]}

CapabilityMaps ==
    UNION {[names -> CapabilityEntries] : names \in SUBSET CapabilityNames}

StatusFields == {"operational", "degraded", "down", "maintenance"}

(* A parsed body: an object with or without "capabilities" (an object or    *)
(* not) and with or without "status", or a JSON value that is no object.    *)
SchpDocuments ==
    [kind : {"object"}, has_capabilities : {TRUE}, capabilities_kind : {"object"},
     capabilities : CapabilityMaps, has_status : {FALSE}, status : {"none"}]
    \cup
    [kind : {"object"}, has_capabilities : {TRUE}, capabilities_kind : {"object"},
     capabilities : CapabilityMaps, has_status : {TRUE}, status : StatusFields]
    \cup
    [kind : {"object"}, has_capabilities : {TRUE}, capabilities_kind : {"array"},
     capabilities : {<<>>}, has_status : BOOLEAN, status : {"operational"}]
    \cup
    [kind : {"object", "array"}, has_capabilities : {FALSE}, capabilities_kind : {"none"},
     capabilities : {<<>>}, has_status : {FALSE}, status : {"none"}]

NotJson == [kind |-> "text"]

SchpResponse(code, body) == [kind |-> "response", code |-> code, ms |-> 12, body |-> body]

SchpOutcomes ==
    {SchpResponse(code, body) : code \in {200, 503}, body \in SchpDocuments \cup {NotJson}}
    \cup {Failure(kind) : kind \in {"timeout", "connect", "other"}}

(* isinstance(cap["ok"], bool) *)
(* As if the type of "ok" were not looked at. *)
IsAnyValue(ok) == TRUE

IsBoolean(ok) == ok \in {"true", "false"}

(* bool(c.get("ok", False)) *)
OkOrFalse(cap) == cap.kind = "object" /\ cap.has_ok /\ cap.ok \in {"true", "yes"}

(* bool(cap.get("ok", True)) *)
OkOrTrue(cap) == cap.kind = "object" /\ (cap.has_ok => cap.ok \in {"true", "yes"})

CapabilityError(name, cap) ==
    IF cap.kind # "object" THEN <<"Capability", name, "must be object">>
    ELSE IF ~cap.has_ok THEN <<"Capability", name, "missing 'ok' field">>
    ELSE IF ~IsBoolean(cap.ok) THEN <<"Capability", name, "'ok' must be boolean">>
    ELSE NoMsg

(* The first capability, in the document's order, that fails validation. *)
RECURSIVE FirstCapabilityError(_, _)
FirstCapabilityError(caps, i) ==
    IF i > Len(CapabilityOrder) THEN NoMsg
    ELSE LET name == CapabilityOrder[i] IN
         IF name \in DOMAIN caps /\ CapabilityError(name, caps[name]) # NoMsg
         THEN CapabilityError(name, caps[name])
         ELSE FirstCapabilityError(caps, i + 1)

(* _validate_schp_response: the error, NoMsg when the document is valid. *)
ValidationError(data) ==
    IF data.kind # "object" THEN <<"Response must be object">>
    ELSE IF ~data.has_capabilities THEN <<"Missing 'capabilities' field">>
    ELSE IF data.capabilities_kind # "object" THEN <<"'capabilities' must be object">>
    ELSE FirstCapabilityError(data.capabilities, 1)

(* As if an empty capabilities map were not looked at: all() of nothing. *)
(* As if one capability that is ok made the service operational. *)
get_overall_status_any_ok(data) ==
    IF ~data.has_capabilities THEN "unknown"
    ELSE IF data.has_status THEN data.status
    ELSE LET caps == data.capabilities IN
         IF DOMAIN caps = {} THEN "unknown"
         ELSE IF \E name \in DOMAIN caps : OkOrFalse(caps[name]) THEN "operational"
         ELSE "down"

get_overall_status_of_all(data) ==
    IF ~data.has_capabilities THEN "unknown"
    ELSE IF data.has_status THEN data.status
    ELSE LET caps == data.capabilities IN
         IF \A name \in DOMAIN caps : OkOrFalse(caps[name]) THEN "operational"
         ELSE IF \E name \in DOMAIN caps : OkOrFalse(caps[name]) THEN "degraded"
         ELSE "down"

(* As if an explicit status counted only when no capability is listed. *)
get_overall_status_derived_first(data) ==
    IF ~data.has_capabilities THEN "unknown"
    ELSE LET caps == data.capabilities IN
         IF DOMAIN caps = {}
         THEN IF data.has_status THEN data.status ELSE "unknown"
         ELSE IF \A name \in DOMAIN caps : OkOrFalse(caps[name]) THEN "operational"
         ELSE IF \E name \in DOMAIN caps : OkOrFalse(caps[name]) THEN "degraded"
         ELSE "down"

get_overall_status(data) ==
    IF ~data.has_capabilities THEN "unknown"
    ELSE IF data.has_status THEN data.status
    ELSE LET caps == data.capabilities IN
         IF DOMAIN caps = {} THEN "unknown"
         ELSE IF \A name \in DOMAIN caps : OkOrFalse(caps[name]) THEN "operational"
         ELSE IF \E name \in DOMAIN caps : OkOrFalse(caps[name]) THEN "degraded"
         ELSE "down"

get_failed_capabilities(data) ==
    IF ~data.has_capabilities THEN <<>>
    ELSE SelectSeq(CapabilityOrder,
                   LAMBDA name : name \in DOMAIN data.capabilities
                                 /\ ~OkOrTrue(data.capabilities[name]))

FetchError(kind, timeout) ==
    CASE kind = "timeout" -> <<"Timeout after", timeout, "s">>
      [] kind = "connect" -> <<"Connection failed:", "e">>
      [] OTHER -> <<"Error:", "e">>

fetch_capabilities(outcome, timeout, t) ==
    LET failed(error, ms) ==
            [success |-> FALSE, data |-> <<>>, error |-> error,
             response_time_ms |-> ms, fetched_at |-> t]
    IN  IF outcome.kind # "response" THEN failed(FetchError(outcome.kind, timeout), Null)
        ELSE IF outcome.code # 200 THEN failed(<<"HTTP", outcome.code>>, outcome.ms)
        ELSE IF outcome.body = NotJson THEN failed(<<"Invalid JSON response">>, outcome.ms)
        ELSE IF ValidationError(outcome.body) # NoMsg
             THEN failed(<<"Invalid SCHP:", ValidationError(outcome.body)>>, outcome.ms)
        ELSE [success |-> TRUE, data |-> outcome.body, error |-> NoMsg,
              response_time_ms |-> outcome.ms, fetched_at |-> t]

(* As if a degraded service still counted as up. *)
check_capabilities_up_when_degraded(outcome, timeout, t) ==
    LET result == fetch_capabilities(outcome, timeout, t) IN
    IF result.success /\ result.data # <<>>
    THEN [is_up |-> get_overall_status(result.data) \in {"operational", "degraded"},
          status |-> get_overall_status(result.data),
          capabilities |-> result.data.capabilities,
          failed_capabilities |-> get_failed_capabilities(result.data),
          response_time_ms |-> result.response_time_ms,
          error_message |-> result.error,
          checked_at |-> result.fetched_at]
    ELSE [is_up |-> FALSE,
          status |-> "unknown",
          capabilities |-> <<>>,
          failed_capabilities |-> <<>>,
          response_time_ms |-> result.response_time_ms,
          error_message |-> result.error,
          checked_at |-> result.fetched_at]

check_capabilities(outcome, timeout, t) ==
    LET result == fetch_capabilities(outcome, timeout, t) IN
    IF result.success /\ result.data # <<>>
    THEN [is_up |-> get_overall_status(result.data) = "operational",
          status |-> get_overall_status(result.data),
          capabilities |-> result.data.capabilities,
          failed_capabilities |-> get_failed_capabilities(result.data),
          response_time_ms |-> result.response_time_ms,
          error_message |-> result.error,
          checked_at |-> result.fetched_at]
    ELSE [is_up |-> FALSE,
          status |-> "unknown",
          capabilities |-> <<>>,
          failed_capabilities |-> <<>>,
          response_time_ms |-> result.response_time_ms,
          error_message |-> result.error,
          checked_at |-> result.fetched_at]

CapabilityCheckRow(monitor_id, result) ==
    [monitor_id |-> monitor_id,
     status_code |-> IF result.is_up THEN 200 ELSE 503,
     response_time_ms |-> result.response_time_ms,
     is_up |-> result.is_up,
     error_message |-> IF result.error_message # NoMsg THEN result.error_message
                       ELSE IF result.failed_capabilities # <<>>
                            THEN <<"Degraded:", result.failed_capabilities>>
                            ELSE NoMsg,
     checked_at |-> result.checked_at]

(* A caller of the engine runs a capability check of a monitor's endpoint... *)
run_capability_check(p, m) ==
    /\ pc[p] = "idle"
    /\ AllIdle
    /\ Len(checks) < MaxCapabilityChecks
    /\ \E outcome \in SchpOutcomes :
         loc' = [loc EXCEPT ![p] =
                  [IdleLoc EXCEPT !.monitor_id = m,
                                  !.outcome = outcome,
                                  !.fetched = fetch_capabilities(outcome, 30, clock),
                                  !.result = check_capabilities(outcome, 30, clock)]]
    /\ pc' = [pc EXCEPT ![p] = "cc_save"]
    /\ UNCHANGED <<clock, monitors, checks, incidents, config, signup, alert_history, deliveries, obs>>

(* ... and saves its result. *)
save_capability_check_result(p) ==
    /\ pc[p] = "cc_save"
    /\ checks' = Append(checks, CapabilityCheckRow(loc[p].monitor_id, loc[p].result))
    /\ pc' = [pc EXCEPT ![p] = "cc_return"]
    /\ UNCHANGED <<clock, monitors, incidents, config, signup, alert_history, deliveries, loc, obs>>

cc_return(p) ==
    /\ pc[p] = "cc_return"
    /\ pc' = [pc EXCEPT ![p] = "idle"]
    /\ loc' = [loc EXCEPT ![p] = IdleLoc]
    /\ UNCHANGED <<clock, monitors, checks, incidents, config, signup, alert_history, deliveries, obs>>

NextSchp ==
    \/ Tick
    \/ \E m \in DashboardMonitors : run_capability_check("ui", m)
    \/ save_capability_check_result("ui")
    \/ cc_return("ui")

SpecSchp == Init /\ [][NextSchp]_vars

(* A process that holds the result of a capability check whose fetch got a *)
(* valid document.                                                          *)
CheckedValid(p) ==
    /\ pc[p] \in {"cc_save", "cc_return"}
    /\ loc[p].outcome.kind = "response"
    /\ loc[p].outcome.code = 200
    /\ loc[p].outcome.body # NotJson
    /\ ValidationError(loc[p].outcome.body) = NoMsg

(* C20: for a valid document without a status field, the overall status is   *)
(* unknown when there is no capability, operational when every capability    *)
(* has ok = true, down when none has, and degraded when some but not all do. *)
C20_StatusFromCapabilities ==
    \A p \in Procs :
        (CheckedValid(p) /\ ~loc[p].outcome.body.has_status) =>
            LET caps == loc[p].outcome.body.capabilities
                ok == {name \in DOMAIN caps : caps[name].ok = "true"}
            IN  /\ \A name \in DOMAIN caps : caps[name].ok \in {"true", "false"}
                /\ loc[p].result.status =
                      (IF DOMAIN caps = {} THEN "unknown"
                       ELSE IF ok = DOMAIN caps THEN "operational"
                       ELSE IF ok = {} THEN "down"
                       ELSE "degraded")

C20_Witness ==
    /\ CheckedValid("ui")
    /\ ~loc["ui"].outcome.body.has_status
    /\ DOMAIN loc["ui"].outcome.body.capabilities = CapabilityNames
    /\ loc["ui"].result.status = "degraded"

(* C21: for a valid document with a status field, the overall status is the *)
(* value of that field, whatever the capabilities say, also when there is   *)
(* none.                                                                    *)
C21_ExplicitStatusWins ==
    \A p \in Procs :
        (CheckedValid(p) /\ loc[p].outcome.body.has_status) =>
            loc[p].result.status = loc[p].outcome.body.status

C21_Witness ==
    /\ CheckedValid("ui")
    /\ loc["ui"].outcome.body.has_status
    /\ loc["ui"].outcome.body.status = "down"
    /\ DOMAIN loc["ui"].outcome.body.capabilities = CapabilityNames
    /\ \A name \in CapabilityNames : loc["ui"].outcome.body.capabilities[name].ok = "true"
    /\ loc["ui"].result.status = "down"

(* A process that holds the result of a capability check. *)
Checked(p) == pc[p] \in {"cc_save", "cc_return"}

(* C22: the result of a capability check has is_up = true exactly when the  *)
(* fetch got an answer 200 with a valid document and the overall status is  *)
(* operational; every failed fetch gives status unknown and is_up = false.  *)
C22_UpIffOperational ==
    \A p \in Procs :
        Checked(p) =>
            /\ loc[p].result.is_up = (CheckedValid(p) /\ loc[p].result.status = "operational")
            /\ ~CheckedValid(p) => loc[p].result.status = "unknown"
            /\ loc[p].result.status \in {"degraded", "down", "unknown", "maintenance"}
                  => ~loc[p].result.is_up

C22_Witness ==
    /\ CheckedValid("ui")
    /\ loc["ui"].result.status = "degraded"
    /\ loc["ui"].result.failed_capabilities = <<"database">>
    /\ ~loc["ui"].result.is_up

(* A capability entry that is an object with a boolean "ok". *)
WellFormedEntry(cap) == cap.kind = "object" /\ cap.has_ok /\ cap.ok \in {"true", "false"}

(* C26: a fetch succeeds exactly when the answer has status 200, its body is *)
(* JSON, an object with a "capabilities" object whose entries are all        *)
(* objects with a boolean "ok"; any other status fails with "HTTP <code>"    *)
(* whatever the body, and a body that fails validation fails with an error   *)
(* that names the response, the capabilities field or a capability that is   *)
(* malformed.                                                                *)
C26_FetchSucceedsIffValid ==
    \A p \in Procs :
        Checked(p) =>
            LET outcome == loc[p].outcome
                fetched == loc[p].fetched
                answered == outcome.kind = "response"
                parsed == answered /\ outcome.code = 200 /\ outcome.body # NotJson
                body == outcome.body
                has_map == /\ body.kind = "object"
                           /\ body.has_capabilities
                           /\ body.capabilities_kind = "object"
            IN  /\ fetched.success =
                      (/\ parsed
                       /\ has_map
                       /\ \A name \in DOMAIN body.capabilities :
                              WellFormedEntry(body.capabilities[name]))
                /\ fetched.success => (fetched.data = body /\ fetched.error = NoMsg)
                /\ (answered /\ outcome.code # 200) => fetched.error = <<"HTTP", outcome.code>>
                /\ (parsed /\ ~fetched.success) =>
                      /\ Len(fetched.error) = 2
                      /\ fetched.error[1] = "Invalid SCHP:"
                      /\ body.kind # "object" =>
                             fetched.error[2] = <<"Response must be object">>
                      /\ (body.kind = "object" /\ ~body.has_capabilities) =>
                             fetched.error[2] = <<"Missing 'capabilities' field">>
                      /\ (body.kind = "object" /\ body.has_capabilities /\ ~has_map) =>
                             fetched.error[2] = <<"'capabilities' must be object">>
                      /\ has_map =>
                             \E name \in DOMAIN body.capabilities :
                                 /\ ~WellFormedEntry(body.capabilities[name])
                                 /\ fetched.error[2][1] = "Capability"
                                 /\ fetched.error[2][2] = name

C26_Witness ==
    /\ Checked("ui")
    /\ loc["ui"].outcome.kind = "response"
    /\ loc["ui"].outcome.code = 200
    /\ loc["ui"].outcome.body # NotJson
    /\ loc["ui"].outcome.body.kind = "object"
    /\ loc["ui"].outcome.body.capabilities_kind = "object"
    /\ DOMAIN loc["ui"].outcome.body.capabilities = CapabilityNames
    /\ loc["ui"].outcome.body.capabilities["auth"].ok = "true"
    /\ loc["ui"].outcome.body.capabilities["database"].ok = "yes"
    /\ ~loc["ui"].fetched.success
    /\ loc["ui"].fetched.error = <<"Invalid SCHP:", <<"Capability", "database", "'ok' must be boolean">> >>

-----------------------------------------------------------------------------
(* Dashboard: delete_monitor, one store call after the other *)

DeleteRows(rows, m) == SelectSeq(rows, LAMBDA r : r.monitor_id # m)

delete_monitor(p, m, overlap) ==
    /\ pc[p] = "idle"
    /\ overlap \/ AllIdle
    /\ m \in DOMAIN monitors
    /\ checks' = DeleteRows(checks, m)
    /\ loc' = [loc EXCEPT ![p] = [IdleLoc EXCEPT !.monitor_id = m]]
    /\ pc' = [pc EXCEPT ![p] = "dm_incidents"]
    /\ UNCHANGED <<clock, monitors, incidents, config, signup, alert_history, deliveries, obs>>

dm_incidents(p) ==
    /\ pc[p] = "dm_incidents"
    /\ incidents' = DeleteRows(incidents, loc[p].monitor_id)
    /\ pc' = [pc EXCEPT ![p] = "dm_configs"]
    /\ UNCHANGED <<clock, monitors, checks, config, signup, alert_history, deliveries, loc, obs>>

dm_configs(p) ==
    /\ pc[p] = "dm_configs"
    /\ alert_configs' = DeleteRows(alert_configs, loc[p].monitor_id)
    /\ pc' = [pc EXCEPT ![p] = "dm_history"]
    /\ UNCHANGED <<clock, monitors, checks, incidents, smtp_configured, signup, alert_history,
                   deliveries, loc, obs>>

dm_history(p) ==
    /\ pc[p] = "dm_history"
    /\ alert_history' = DeleteRows(alert_history, loc[p].monitor_id)
    /\ pc' = [pc EXCEPT ![p] = "dm_monitors"]
    /\ UNCHANGED <<clock, monitors, checks, incidents, config, signup, deliveries, loc, obs>>

dm_monitors(p) ==
    /\ pc[p] = "dm_monitors"
    /\ monitors' = [m \in DOMAIN monitors \ {loc[p].monitor_id} |-> monitors[m]]
    /\ pc' = [pc EXCEPT ![p] = "idle"]
    /\ loc' = [loc EXCEPT ![p] = IdleLoc]
    /\ UNCHANGED <<clock, checks, incidents, config, signup, alert_history, deliveries, obs>>

(* The dashboard deletes a monitor while the scheduler's cycle may be running. *)
NextDelete ==
    \/ Tick
    \/ run_all_checks("cron", TRUE)
    \/ rac_return("cron")
    \/ rac_skip("cron")
    \/ rac_check("cron", StateMachineOutcomes)
    \/ save_check_result("cron", "rac_save", "rac_ums")
    \/ ums_read("cron", "rac_ums")
    \/ rac_append("cron")
    \/ trigger_check("ui", MissingId, StateMachineOutcomes, TRUE)
    \/ \E m \in DashboardMonitors : trigger_check("ui", m, StateMachineOutcomes, FALSE)
    \/ save_check_result("ui", "tc_save", "tc_ums")
    \/ ums_read("ui", "tc_ums")
    \/ tc_return("ui")
    \/ \E m \in DashboardMonitors : delete_monitor("ui", m, TRUE)
    \/ dm_incidents("ui")
    \/ dm_configs("ui")
    \/ dm_history("ui")
    \/ dm_monitors("ui")
    \/ \E p \in Procs :
          \/ ums_insert(p)
          \/ ums_open(p)
          \/ ums_resolve(p)
          \/ ums_resolved(p)
          \/ ums_write(p)
          \/ sa_query(p)
          \/ sa_send(p, StateMachineWebhooks)
          \/ sa_return(p)

SpecDelete == Init /\ [][NextDelete]_vars

(* The rows of the tables that name a monitor. *)
Referencing(m) ==
    [checks |-> RowsOf(checks, m), incidents |-> RowsOf(incidents, m),
     alert_configs |-> RowsOf(alert_configs, m), alert_history |-> RowsOf(alert_history, m)]

NoRows == [checks |-> <<>>, incidents |-> <<>>, alert_configs |-> <<>>, alert_history |-> <<>>]

(* update_monitor_status has returned because it found no monitor. *)
LookupFailed(p) == pc[p] = Caller(p) /\ ~obs[p].called

(* C23: a check step whose monitor lookup fails has written nothing: when    *)
(* update_monitor_status returns for want of the monitor, also for a monitor *)
(* deleted after the cycle loaded it, no check row, incident or alert        *)
(* history row of that monitor is in the store.                              *)
C23_LookupFailureWritesNothing ==
    \A p \in Procs :
        LookupFailed(p) =>
            /\ RowsOf(checks, loc[p].monitor_id) = <<>>
            /\ RowsOf(incidents, loc[p].monitor_id) = <<>>
            /\ RowsOf(alert_history, loc[p].monitor_id) = <<>>

(* C24: once delete_monitor has completed and every check started before it  *)
(* has finished, no row of checks, incidents, alert_configs or alert_history *)
(* names the deleted monitor.                                                *)
C24_DeleteLeavesNoRows ==
    AllIdle =>
        \A m \in MonitorIds \ DOMAIN monitors : Referencing(m) = NoRows

(* C25: a scheduler cycle works only on active monitors: the monitors it has *)
(* queued and the one it is checking are active, whatever their              *)
(* last_checked_at, and no step of a cycle changes the row, the checks or    *)
(* the incidents of a monitor that is paused.                                *)
C25_CycleLeavesPausedAlone ==
    /\ [](pc["cron"] # "idle" =>
            /\ \A i \in 1..Len(loc["cron"].queue) :
                   monitors[loc["cron"].queue[i].id].is_active
            /\ (BeforeSave("cron") \/ PastSave("cron")) =>
                   monitors[loc["cron"].monitor_id].is_active)
    /\ [][pc["cron"] # "idle" =>
            \A m \in DOMAIN monitors :
                ~monitors[m].is_active =>
                    /\ monitors'[m] = monitors[m]
                    /\ RowsOf(checks', m) = RowsOf(checks, m)
                    /\ RowsOf(incidents', m) = RowsOf(incidents, m)
                    /\ RowsOf(alert_history', m) = RowsOf(alert_history, m)]_vars

C25_Witness ==
    /\ pc["cron"] = "rac_loop"
    /\ loc["cron"].queue = <<>>
    /\ loc["cron"].results = <<"m2">>
    /\ loc["cron"].skipped = <<>>
    /\ ~monitors["m1"].is_active
    /\ monitors["m1"].last_checked_at # Null
    /\ clock - monitors["m1"].last_checked_at >= monitors["m1"].check_interval_seconds

(***************************************************************************)
(* The sign-up rate limiter (app.py, check_rate_limit).  The clock counts  *)
(* seconds here; the monitoring engine takes no step in SpecSignup.        *)
(***************************************************************************)
RateLimitSeconds == 60

MaxSignupTime == 61

MaxSignups == 2

Emails == {"a@example.com", "b@example.com"}

(* datetime.now moves on between two calls of the sign-up form. *)
signup_wait ==
    /\ clock < MaxSignupTime
    /\ Len(signup_calls) < MaxSignups
    /\ clock' = clock + 1
    /\ UNCHANGED <<monitors, checks, incidents, config, signup, alert_history, deliveries, pc, loc, obs>>

(* _signup_attempts.clear(): no entry is left, whatever the map held. *)
ClearAttempts(attempts) == [e \in {} |-> Null]

(* One call of check_rate_limit(email); dev_mode is what is_dev_mode()     *)
(* answers.  The call is logged with the value it returns.                  *)
check_rate_limit(email, dev_mode) ==
    /\ Len(signup_calls) < MaxSignups
    /\ LET now      == clock
           cleared  == ClearAttempts(signup_attempts)
           limited  == /\ email \in DOMAIN cleared
                       /\ now - cleared[email] < RateLimitSeconds
           call(ok) == [email |-> email, at |-> now, dev_mode |-> dev_mode, allowed |-> ok]
       IN  IF dev_mode
           THEN /\ signup_calls' = Append(signup_calls, call(TRUE))
                /\ UNCHANGED signup_attempts
           ELSE IF limited
           THEN /\ signup_calls' = Append(signup_calls, call(FALSE))
                /\ signup_attempts' = cleared
           ELSE /\ signup_calls' = Append(signup_calls, call(TRUE))
                /\ signup_attempts' = [e \in DOMAIN cleared \cup {email} |->
                                          IF e = email THEN now ELSE cleared[e]]
    /\ UNCHANGED <<clock, monitors, checks, incidents, config, alert_history, deliveries, pc, loc, obs>>

NextSignup ==
    \/ signup_wait
    \/ \E email \in Emails, dev_mode \in BOOLEAN : check_rate_limit(email, dev_mode)

SpecSignup == Init /\ [][NextSignup]_vars

(* An earlier call that was allowed outside dev mode for the same email,   *)
(* less than 60 seconds before call j.                                      *)
RecentlyAllowed(j) ==
    \E i \in 1..(j - 1) :
        /\ ~signup_calls[i].dev_mode
        /\ signup_calls[i].allowed
        /\ signup_calls[i].email = signup_calls[j].email
        /\ signup_calls[j].at - signup_calls[i].at < RateLimitSeconds

(* C28: outside dev mode a call of check_rate_limit is refused exactly when *)
(* the same email was allowed less than 60 seconds before; calls for other  *)
(* emails and calls 60 or more seconds later are allowed.                   *)
C28_OnePerMinutePerEmail ==
    \A j \in 1..Len(signup_calls) :
        ~signup_calls[j].dev_mode => (signup_calls[j].allowed <=> ~RecentlyAllowed(j))

(* C29: an incident is open only while its monitor is down: when no handler *)
(* is running, a monitor whose current_status is up has no unresolved       *)
(* incident, and an update_monitor_status that observed the monitor up      *)
(* returns with none of the monitor's incidents left open.                  *)
C29_OpenOnlyWhileDown ==
    /\ AllIdle =>
          \A m \in DOMAIN monitors :
              monitors[m].current_status = "up" => Unresolved(incidents, m) = {}
    /\ \A p \in Procs :
          Returned(p) /\ loc[p].new_status = "up"
             => Unresolved(incidents, loc[p].monitor_id) = {}

(* C30: the incident write and the status write of one transition take     *)
(* effect together: when update_monitor_status has ended, by returning or   *)
(* by a raised store error, and has inserted an incident, the monitor's     *)
(* current_status is down and its last_checked_at is the time of the call.  *)
C30_IncidentWithStatus ==
    \A p \in Procs :
        /\ pc[p] \in {"raised", Caller(p)}
        /\ obs[p].called
        /\ Len(incidents) > Len(obs[p].incidents)
        => /\ monitors[obs[p].monitor.id].current_status = "down"
           /\ monitors[obs[p].monitor.id].last_checked_at = loc[p].now

====
